---- MODULE Spec2Model ----
(***************************************************************************)
(* Model of weather_data_processor.py: the WeatherDataProcessor class.     *)
(*                                                                         *)
(* Text is a sequence of one-character strings.  A configured regular      *)
(* expression is one of two shapes, each with a literal unit suffix:       *)
(*   "num"   : (\d+(\.\d+)?)\s?UNIT     (the shape of the documented       *)
(*             Rainfall / Temperature patterns)                            *)
(*   "loose" : ([\d.]+)\s?UNIT          (a pattern whose capture need not  *)
(*             be a number, so that float() can raise)                     *)
(* A float is an exact rational [num, den] in lowest terms; a DataFrame is  *)
(* a record of columns, each a sequence.  The logger calls inside the      *)
(* methods change no field of the processor; what they write is the        *)
(* subject of Log, under LogSpec.                                          *)
(***************************************************************************)
EXTENDS Integers, Sequences, FiniteSets, TLC

VARIABLES
    patterns,    \* self.patterns: [key, pattern] entries in dict order
    weather_df,  \* self.weather_df: None or a table
    source,      \* the table that self.weather_station_data (the URL) serves
    op,          \* the method called last
    ret,         \* what it returned
    err,         \* the exception it raised, NoError when it returned
    trace,       \* the steps the last call of process ran, with what each raised
    runs,        \* completed process_messages runs on the table in weather_df
    message,     \* argument of the last extract_measurement call
    logger,      \* the process-wide logging.Logger named by line 97
    procs,       \* logging_level of every processor constructed so far
    emitted      \* outcome of the last logger call of a processor

vars == <<patterns, weather_df, source, op, ret, err, trace, runs, message,
          logger, procs, emitted>>

\* ------------------------------------------------------------------ bounds
MaxMsgLen == 4
MaxRows == 2
MaxProcs == 3
MaxRuns == 2

\* ------------------------------------------------------------- vocabulary
\* Python values are records, so that any two of them can be compared: None, a
\* str, a float (a rational), a regex group's text, a tuple, a table.
None == [none |-> TRUE]
NaN == [nan |-> TRUE]
Str(s) == [str |-> s]
NoError == "NoError"

Digits == {"0", "1", "2", "3", "4", "5", "6", "7", "8", "9"}

IsDigit(c) == c \in Digits

IsSpace(c) == c = " "

DigitVal(c) ==
    CASE c = "0" -> 0 [] c = "1" -> 1 [] c = "2" -> 2 [] c = "3" -> 3
      [] c = "4" -> 4 [] c = "5" -> 5 [] c = "6" -> 6 [] c = "7" -> 7
      [] c = "8" -> 8 [] c = "9" -> 9

RECURSIVE GCD(_, _)
GCD(a, b) == IF b = 0 THEN a ELSE GCD(b, a % b)

RECURSIVE Pow10(_)
Pow10(n) == IF n = 0 THEN 1 ELSE 10 * Pow10(n - 1)

\* A rational in lowest terms (d > 0, n >= 0).
Rat(n, d) == LET g == GCD(n, d) IN [num |-> n \div g, den |-> d \div g]

RatAdd(x, y) == Rat(x.num * y.den + y.num * x.den, x.den * y.den)

RatDiv(x, k) == Rat(x.num, x.den * k)

\* ------------------------------------------------------------------ float
RECURSIVE ParseDigits(_)
ParseDigits(s) ==
    IF s = <<>> THEN 0
    ELSE ParseDigits(SubSeq(s, 1, Len(s) - 1)) * 10 + DigitVal(s[Len(s)])

\* float(text) for text over digits and ".": "12", "12.5", "1." and ".5" parse,
\* ".", "" and anything with two dots raise ValueError.
float(text) ==
    LET dots == {i \in 1..Len(text) : text[i] = "."}
        digs == {i \in 1..Len(text) : IsDigit(text[i])}
    IN  IF \/ dots \cup digs # 1..Len(text)
           \/ Cardinality(dots) > 1
           \/ digs = {}
        THEN [raised |-> "ValueError", value |-> None]
        ELSE IF dots = {}
        THEN [raised |-> NoError, value |-> Rat(ParseDigits(text), 1)]
        ELSE LET i == CHOOSE j \in dots : TRUE
                 ip == SubSeq(text, 1, i - 1)
                 fp == SubSeq(text, i + 1, Len(text))
             IN  [raised |-> NoError,
                  value |-> Rat(ParseDigits(ip) * Pow10(Len(fp)) + ParseDigits(fp),
                                Pow10(Len(fp)))]

\* -------------------------------------------------------------- re.search
HasAt(msg, i, lit) ==
    /\ i + Len(lit) - 1 <= Len(msg)
    /\ \A j \in 1..Len(lit) : msg[i + j - 1] = lit[j]

\* Lengths k >= 1 such that msg[i .. i+k-1] are all characters of class.
RunLens(msg, i, class) ==
    {k \in 1..(Len(msg) - i + 1) : \A j \in i..(i + k - 1) : msg[j] \in class}

\* The character class [\d.]
DigitOrDot == Digits \cup {"."}

\* \s?UNIT from position j: 1 when the optional space is consumed, 0 when not.
TailChoices(msg, j, unit) ==
    {s \in {0, 1} : /\ (s = 1 => (j <= Len(msg) /\ IsSpace(msg[j])))
                    /\ HasAt(msg, j + s, unit)}

\* (\.\d+)? from position j: the numbers of digits after a dot at j.
FracLens(msg, j) ==
    IF j <= Len(msg) /\ msg[j] = "." THEN RunLens(msg, j + 1, Digits) ELSE {}

\* Parses <<k, m, s>> whose leading repetition took k characters: m digits
\* after the dot (0 when the optional group is skipped), s for the optional
\* space.
NumParses(pattern, msg, i, k) ==
    UNION {{<<k, m, s>> :
              s \in TailChoices(msg, i + k + (IF m > 0 THEN m + 1 ELSE 0), pattern.unit)} :
           m \in {0} \cup FracLens(msg, i + k)}

LooseParses(pattern, msg, i, k) ==
    {<<k, 0, s>> : s \in TailChoices(msg, i + k, pattern.unit)}

\* Every way the pattern matches starting exactly at i.
ParsesAt(pattern, msg, i) ==
    IF pattern.cls = "num"
    THEN UNION {NumParses(pattern, msg, i, k) : k \in RunLens(msg, i, Digits)}
    ELSE UNION {LooseParses(pattern, msg, i, k) : k \in RunLens(msg, i, DigitOrDot)}

\* Greedy quantifiers with backtracking try longer before shorter and taken
\* before skipped: the match found is the lexicographically greatest parse.
ParseLeq(u, t) ==
    \/ u[1] < t[1]
    \/ u[1] = t[1] /\ u[2] < t[2]
    \/ u[1] = t[1] /\ u[2] = t[2] /\ u[3] <= t[3]

Min(S) == CHOOSE a \in S : \A b \in S : a <= b

BestParse(P) == CHOOSE a \in P : \A b \in P : ParseLeq(b, a)

\* match.groups() of the match that starts at i with parse t.
MatchGroups(pattern, msg, i, t) ==
    IF pattern.cls = "num"
    THEN [groups |->
            <<[text |-> SubSeq(msg, i, i + t[1] + (IF t[2] > 0 THEN t[2] + 1 ELSE 0) - 1)],
              IF t[2] > 0
              THEN [text |-> SubSeq(msg, i + t[1], i + t[1] + t[2])]
              ELSE None>>]
    ELSE [groups |-> <<[text |-> SubSeq(msg, i, i + t[1] - 1)]>>]

MatchFrom(pattern, msg, starts) ==
    IF starts = {} THEN None
    ELSE MatchGroups(pattern, msg, Min(starts),
                     BestParse(ParsesAt(pattern, msg, Min(starts))))

\* re.search(pattern, msg): the leftmost match, or None.
re_search(pattern, msg) ==
    MatchFrom(pattern, msg, {i \in 1..Len(msg) : ParsesAt(pattern, msg, i) # {}})

\* ---------------------------------------------------- extract_measurement
\* next((x for x in match.groups() if x is not None))
FirstNonNone(groups) ==
    LET some == {n \in 1..Len(groups) : groups[n] # None}
    IN  IF some = {} THEN [raised |-> "StopIteration", value |-> None]
        ELSE [raised |-> NoError, value |-> groups[Min(some)]]

\* return key, float(...): the tuple, unless float raised.
ReturnPair(key, f) ==
    IF f.raised = NoError
    THEN [raised |-> NoError, value |-> [kind |-> Str(key), value |-> f.value]]
    ELSE [raised |-> f.raised, value |-> None]

\* float(next(...)) for the key whose pattern matched.
Measure(key, g) ==
    IF g.raised = NoError THEN ReturnPair(key, float(g.value.text))
    ELSE [raised |-> g.raised, value |-> None]

\* Variant: a default value of 0 where no pattern matched.
NoMeasurementZero == [raised |-> NoError, value |-> [kind |-> None, value |-> Rat(0, 1)]]

\* return None, None
NoMeasurement == [raised |-> NoError, value |-> [kind |-> None, value |-> None]]

\* The for loop of lines 155-161 from the n-th pattern on; match is
\* re.search of the n-th pattern.
RECURSIVE extract_from(_, _, _)
LoopBody(pats, n, msg, match) ==
    IF match # None
    THEN Measure(pats[n].key, FirstNonNone(match.groups))
    ELSE extract_from(pats, n + 1, msg)

extract_from(pats, n, msg) ==
    IF n > Len(pats) THEN NoMeasurement
    ELSE LoopBody(pats, n, msg, re_search(pats[n].pattern, msg))

\* Variant: the patterns tried from the last to the first.
extract_measurement_reversed(pats, msg) ==
    extract_from([i \in 1..Len(pats) |-> pats[Len(pats) + 1 - i]], 1, msg)

extract_measurement(pats, msg) == extract_from(pats, 1, msg)

\* ------------------------------------------------------------------ inputs
\* Configured pattern sets: dicts in insertion order.  Depth matches wherever
\* Rainfall does; Raw captures any run of digits and dots.
Rainfall == [key |-> "Rainfall", pattern |-> [cls |-> "num", unit |-> <<"m", "m">>]]

Temperature == [key |-> "Temperature", pattern |-> [cls |-> "num", unit |-> <<"C">>]]

Depth == [key |-> "Depth", pattern |-> [cls |-> "num", unit |-> <<"m">>]]

Raw == [key |-> "Raw", pattern |-> [cls |-> "loose", unit |-> <<"m", "m">>]]

PatternSets ==
    {<<Rainfall, Temperature>>, <<Temperature, Rainfall>>, <<Depth, Rainfall>>,
     <<Rainfall, Depth>>, <<Raw, Temperature>>}

Alphabet == {"1", "5", ".", " ", "m", "C"}

\* Every message over Alphabet of at most MaxMsgLen characters.
AllMessages == UNION {[1..n -> Alphabet] : n \in 0..MaxMsgLen}

Stations == {"S1", "S2"}

\* Messages of the rows of a source table.
TableMessages ==
    {<<"1", "0", " ", "m", "m">>,          \* Rainfall 10
     <<"1", ".", "5", "m", "m">>,          \* Rainfall 1.5
     <<"1", "C", "2", "0", "m", "m">>,     \* Temperature 1 and Rainfall 20
     <<"d", "r", "y">>,                    \* no measurement
     <<"1", ".", ".", "5", "m", "m">>}     \* Rainfall 5; Raw captures "1..5"

SourceTables ==
    UNION {{[Weather_station_ID |-> ids, Message |-> ms] :
              ids \in [1..n -> Stations], ms \in [1..n -> TableMessages]} :
           n \in 0..MaxRows}

\* read_from_web_CSV(url) either returns the table the URL serves or raises.
LoadErrors == {"URLError", "ParserError"}

LoadOutcomes(served) ==
    {[raised |-> NoError, value |-> served]}
    \cup {[raised |-> e, value |-> None] : e \in LoadErrors}

\* ---------------------------------------------------------------- methods
\* A method is an operator from self's fields and the arguments to
\* [weather_df, ret, raised]: the table afterwards, the value returned and
\* the exception raised (NoError when the method returned).
weather_station_mapping(df, outcome) ==
    IF outcome.raised # NoError
    THEN [weather_df |-> df, ret |-> None, raised |-> outcome.raised]
    ELSE [weather_df |-> outcome.value, ret |-> None, raised |-> NoError]

\* zip(*result): nothing for an empty result, else one tuple per tuple position.
zip_star(result) ==
    IF Len(result) = 0 THEN <<>>
    ELSE <<[i \in 1..Len(result) |-> result[i].kind],
           [i \in 1..Len(result) |-> result[i].value]>>

\* Variant: results appended to columns that exist already.
AssignColumnsAppend(df, applied) ==
    LET bad == {i \in 1..Len(applied) : applied[i].raised # NoError}
        z == zip_star([i \in 1..Len(applied) |-> applied[i].value])
        old == IF "Measurement" \in DOMAIN df
               THEN <<df.Measurement, df.Value>> ELSE <<(<<>>), (<<>>)>>
    IN  IF bad # {}
        THEN [weather_df |-> df, ret |-> None, raised |-> applied[Min(bad)].raised]
        ELSE IF Len(z) # 2
        THEN [weather_df |-> df, ret |-> None, raised |-> "ValueError"]
        ELSE [weather_df |-> [Weather_station_ID |-> df.Weather_station_ID,
                              Message |-> df.Message,
                              Measurement |-> old[1] \o z[1],
                              Value |-> old[2] \o z[2]],
              ret |-> [Weather_station_ID |-> df.Weather_station_ID,
                       Message |-> df.Message,
                       Measurement |-> old[1] \o z[1],
                       Value |-> old[2] \o z[2]],
              raised |-> NoError]

\* The assignment of line 178 for the Series that apply returned: the call
\* raises what the first failing row raised, and unpacking needs two tuples.
AssignColumns(df, applied) ==
    LET bad == {i \in 1..Len(applied) : applied[i].raised # NoError}
        z == zip_star([i \in 1..Len(applied) |-> applied[i].value])
    IN  IF bad # {}
        THEN [weather_df |-> df, ret |-> None, raised |-> applied[Min(bad)].raised]
        ELSE IF Len(z) # 2
        THEN [weather_df |-> df, ret |-> None, raised |-> "ValueError"]
        ELSE [weather_df |-> [Weather_station_ID |-> df.Weather_station_ID,
                              Message |-> df.Message,
                              Measurement |-> z[1],
                              Value |-> z[2]],
              ret |-> [Weather_station_ID |-> df.Weather_station_ID,
                       Message |-> df.Message,
                       Measurement |-> z[1],
                       Value |-> z[2]],
              raised |-> NoError]

\* Series.apply(self.extract_measurement)
apply(pats, column) ==
    [i \in 1..Len(column) |-> extract_measurement(pats, column[i])]

\* Variant: no test of weather_df against None.
process_messages_unguarded(pats, df) ==
    IF df # None
    THEN AssignColumns(df, apply(pats, df.Message))
    ELSE [weather_df |-> df, ret |-> None, raised |-> "TypeError"]

process_messages(pats, df) ==
    IF df # None
    THEN AssignColumns(df, apply(pats, df.Message))
    ELSE [weather_df |-> df, ret |-> df, raised |-> NoError]

\* Sum of Value over the rows i..n of the group key (NaN / None skipped).
RECURSIVE GroupSum(_, _, _)
GroupSum(df, key, i) ==
    IF i > Len(df.Value) THEN [sum |-> Rat(0, 1), count |-> 0]
    ELSE LET rest == GroupSum(df, key, i + 1)
         IN  IF /\ <<df.Weather_station_ID[i], df.Measurement[i]>> = key
                /\ df.Value[i] # None
             THEN [sum |-> RatAdd(df.Value[i], rest.sum), count |-> rest.count + 1]
             ELSE rest

\* groupby(by=['Weather_station_ID', 'Measurement'])['Value'].mean(): rows whose
\* key holds a null are dropped.
groupby_mean(df) ==
    LET keys == {<<df.Weather_station_ID[i], df.Measurement[i]>> :
                   i \in {j \in 1..Len(df.Measurement) : df.Measurement[j] # None}}
    IN  [k \in keys |->
           LET g == GroupSum(df, k, 1)
           IN  IF g.count = 0 THEN NaN ELSE RatDiv(g.sum, g.count)]

\* Variant: unstack(fill_value=0).
unstack_fill_zero(means) ==
    LET index == {k[1] : k \in DOMAIN means}
        columns == {k[2] : k \in DOMAIN means}
    IN  [index |-> index, columns |-> columns,
         cell |-> [k \in index \X columns |->
                     IF k \in DOMAIN means THEN means[k] ELSE Rat(0, 1)]]

\* Series.unstack(): index = first key level, columns = second, NaN where the
\* pair has no entry.
unstack(means) ==
    LET index == {k[1] : k \in DOMAIN means}
        columns == {k[2] : k \in DOMAIN means}
    IN  [index |-> index, columns |-> columns,
         cell |-> [k \in index \X columns |->
                     IF k \in DOMAIN means THEN means[k] ELSE NaN]]

calculate_means(df) ==
    IF df # None
    THEN IF {"Weather_station_ID", "Measurement", "Value"} \subseteq DOMAIN df
         THEN [weather_df |-> df, ret |-> unstack(groupby_mean(df)), raised |-> NoError]
         ELSE [weather_df |-> df, ret |-> None, raised |-> "KeyError"]
    ELSE [weather_df |-> df, ret |-> None, raised |-> NoError]

\* process: the second step runs only when the first did not raise, and
\* nothing is returned.  trace reports the steps that ran and what each raised.
Step(name, raised) == [step |-> name, raised |-> raised]

Traced(r, tr) ==
    [weather_df |-> r.weather_df, ret |-> None, raised |-> r.raised, trace |-> tr]

AfterExtract(b) ==
    Traced(b, <<Step("weather_station_mapping", NoError),
                Step("process_messages", b.raised)>>)

\* Variant: the second step runs whatever the first did.
AfterLoadContinue(pats, a) ==
    Traced(process_messages(pats, a.weather_df),
           <<Step("weather_station_mapping", a.raised),
             Step("process_messages", NoError)>>)

AfterLoad(pats, a) ==
    IF a.raised # NoError
    THEN Traced(a, <<Step("weather_station_mapping", a.raised)>>)
    ELSE AfterExtract(process_messages(pats, a.weather_df))

\* Variant: the two steps in the other order.
process_swapped(pats, df, outcome) ==
    Traced(weather_station_mapping(process_messages(pats, df).weather_df, outcome),
           <<Step("weather_station_mapping", NoError),
             Step("process_messages", NoError)>>)

process(pats, df, outcome) == AfterLoad(pats, weather_station_mapping(df, outcome))

\* ---------------------------------------------------------------- logging
LoggingLevels == {"DEBUG", "info", "NONE", "TRACE"}

Severities == {"DEBUG", "INFO", "WARNING"}

LevelNo(name) ==
    CASE name = "NOTSET" -> 0 [] name = "DEBUG" -> 10 [] name = "INFO" -> 20
      [] name = "WARNING" -> 30

upper(s) ==
    CASE s = "info" -> "INFO" [] s = "debug" -> "DEBUG" [] s = "none" -> "NONE"
      [] OTHER -> s

\* A logger that logging.getLogger has just created.
NewLogger == [disabled |-> FALSE, level |-> "NOTSET", handlers |-> 0]

\* setLevel and the guarded addHandler of lines 112-119.
set_level_and_handler(lg, log_level) ==
    [lg EXCEPT !.level = log_level,
               !.handlers = IF lg.handlers = 0 THEN 1 ELSE lg.handlers]

initialize_logging(lg, logging_level) ==
    IF upper(logging_level) = "DEBUG" THEN set_level_and_handler(lg, "DEBUG")
    ELSE IF upper(logging_level) = "INFO" THEN set_level_and_handler(lg, "INFO")
    ELSE IF upper(logging_level) = "NONE" THEN [lg EXCEPT !.disabled = TRUE]
    ELSE set_level_and_handler(lg, "INFO")

\* Logger.log(severity, ...): the number of handlers the record is written to.
\* The logger's level NOTSET defers to the root logger's WARNING; with no
\* handler and propagate off, logging.lastResort writes WARNING and above.
logger_log(lg, severity) ==
    LET effective == IF lg.level = "NOTSET" THEN "WARNING" ELSE lg.level
    IN  IF lg.disabled \/ LevelNo(severity) < LevelNo(effective) THEN 0
        ELSE IF lg.handlers = 0
        THEN (IF LevelNo(severity) >= LevelNo("WARNING") THEN 1 ELSE 0)
        ELSE lg.handlers

\* ----------------------------------------------------------------- actions
\* What a call leaves behind: the table, the call's name, its outcome.
RunsAfter(name, r) ==
    CASE name = "weather_station_mapping" ->
            IF r.raised = NoError THEN 0 ELSE runs
      [] name = "process_messages" ->
            IF r.raised = NoError /\ r.weather_df # None /\ runs < MaxRuns
            THEN runs + 1 ELSE runs
      [] name = "process" ->
            IF r.trace[1].raised # NoError THEN runs
            ELSE IF r.raised = NoError THEN 1 ELSE 0
      [] OTHER -> runs

Called(name, r) ==
    /\ weather_df' = r.weather_df
    /\ op' = name
    /\ ret' = r.ret
    /\ err' = r.raised
    /\ trace' = IF "trace" \in DOMAIN r THEN r.trace ELSE <<>>
    /\ runs' = RunsAfter(name, r)

WeatherStationMapping ==
    \E o \in LoadOutcomes(source) :
        /\ Called("weather_station_mapping", weather_station_mapping(weather_df, o))
        /\ UNCHANGED <<patterns, source, message, logger, procs, emitted>>

ProcessMessages ==
    /\ Called("process_messages", process_messages(patterns, weather_df))
    /\ UNCHANGED <<patterns, source, message, logger, procs, emitted>>

CalculateMeans ==
    /\ Called("calculate_means", calculate_means(weather_df))
    /\ UNCHANGED <<patterns, source, message, logger, procs, emitted>>

Process ==
    \E o \in LoadOutcomes(source) :
        /\ Called("process", process(patterns, weather_df, o))
        /\ UNCHANGED <<patterns, source, message, logger, procs, emitted>>

\* self.extract_measurement(message)
Returned(name, r) ==
    /\ op' = name
    /\ ret' = r.value
    /\ err' = r.raised

ExtractMeasurement ==
    /\ Returned("extract_measurement", extract_measurement(patterns, message))
    /\ UNCHANGED <<patterns, weather_df, source, trace, runs, message, logger, procs,
                   emitted>>

\* WeatherDataProcessor(config_params, logging_level): one more processor on
\* the logger that every instance shares.
Construct ==
    \E lv \in LoggingLevels :
        /\ Len(procs) < MaxProcs
        /\ procs' = Append(procs, lv)
        /\ logger' = initialize_logging(logger, lv)
        /\ emitted' = None
        /\ UNCHANGED <<patterns, weather_df, source, op, ret, err, trace, runs, message>>

\* Processor p reaches one of its self.logger.debug / info / warning calls.
Log ==
    \E p \in 1..Len(procs), sev \in Severities :
        /\ emitted' = [proc |-> p, severity |-> sev, written |-> logger_log(logger, sev)]
        /\ UNCHANGED <<patterns, weather_df, source, op, ret, err, trace, runs,
                       message, logger, procs>>

\* ---------------------------------------------------------- specifications
\* One processor, constructed with the default logging level, and its
\* pipeline; the URL serves the same table throughout a behaviour, and each
\* read of it may fail.
Init ==
    /\ patterns \in PatternSets
    /\ weather_df = None
    /\ source \in SourceTables
    /\ op = "__init__"
    /\ ret = None
    /\ err = NoError
    /\ trace = <<>>
    /\ runs = 0
    /\ message = None
    /\ logger = initialize_logging(NewLogger, "INFO")
    /\ procs = <<"INFO">>
    /\ emitted = None

Next == WeatherStationMapping \/ ProcessMessages \/ CalculateMeans \/ Process

Spec == Init /\ [][Next]_vars

\* extract_measurement alone, on every message over Alphabet.
ExtractNext == ExtractMeasurement

ExtractInit ==
    /\ patterns \in PatternSets
    /\ weather_df = None
    /\ source = [Weather_station_ID |-> <<>>, Message |-> <<>>]
    /\ op = "__init__"
    /\ ret = None
    /\ err = NoError
    /\ trace = <<>>
    /\ runs = 0
    /\ message \in AllMessages
    /\ logger = initialize_logging(NewLogger, "INFO")
    /\ procs = <<"INFO">>
    /\ emitted = None

ExtractSpec == ExtractInit /\ [][ExtractNext]_vars

\* Constructions and logger calls in one process.
LogInit ==
    /\ patterns = <<Rainfall, Temperature>>
    /\ weather_df = None
    /\ source = [Weather_station_ID |-> <<>>, Message |-> <<>>]
    /\ op = "__init__"
    /\ ret = None
    /\ err = NoError
    /\ trace = <<>>
    /\ runs = 0
    /\ message = None
    /\ logger = NewLogger
    /\ procs = <<>>
    /\ emitted = None

LogNext == Construct \/ Log

LogSpec == LogInit /\ [][LogNext]_vars

\* ------------------------------------------------------------------ claims
Matches(k, msg) == re_search(patterns[k].pattern, msg) # None

FirstMatch(k, msg) == Matches(k, msg) /\ \A j \in 1..(k - 1) : ~Matches(j, msg)

Key(k) == Str(patterns[k].key)

\* C1: when pattern k is the first of the configured order that matches the
\* message, extract_measurement returns kind k, also when a later pattern
\* matches too; it raises only where k's capture is not a numeric literal.
C1_FirstMatchWins ==
    op = "extract_measurement" =>
        \A k \in 1..Len(patterns) :
            FirstMatch(k, message) =>
                /\ err = NoError => ret.kind = Key(k)
                /\ patterns[k].pattern.cls = "num" => err = NoError

C1_Witness ==
    /\ op = "extract_measurement"
    /\ err = NoError
    /\ \E k \in 1..Len(patterns), j \in 1..Len(patterns) :
          /\ k < j
          /\ FirstMatch(k, message)
          /\ Matches(j, message)
          /\ ret.kind = Key(k)

\* C6: a message that matches none of the configured patterns yields
\* (None, None): kind and value both absent, and nothing raised.
C6_NoMatchAbsent ==
    (op = "extract_measurement" /\ \A k \in 1..Len(patterns) : ~Matches(k, message))
        => (err = NoError /\ ret.kind = None /\ ret.value = None)

C6_Witness ==
    /\ op = "extract_measurement"
    /\ Len(message) > 0
    /\ \A k \in 1..Len(patterns) : ~Matches(k, message)
    /\ ret = [kind |-> None, value |-> None]

\* The derived columns exist in the table.
Extracted(df) == df # None /\ {"Measurement", "Value"} \subseteq DOMAIN df

\* An explicit failure report: NotLoadedError, or the explicit uninitialized
\* result (None returned after a warning).
ReportedUninitialized == err = "NotLoadedError" \/ (err = NoError /\ ret = None)

\* C2: calculate_means called before load, or on a loaded table that
\* process_messages has not run on, reports the missing prerequisite: it
\* neither returns a means table nor crashes on the missing column.
C2_MeansBeforeExtractReported ==
    (op = "calculate_means" /\ ~Extracted(weather_df)) => ReportedUninitialized

\* C3: process_messages on a loaded table of zero rows completes and
\* returns that table, still with zero rows.
C3_EmptyTableDefined ==
    (op = "process_messages" /\ weather_df # None /\ Len(weather_df.Message) = 0)
        => (err = NoError /\ ret # None /\ Len(ret.Message) = 0)

\* The table is source with Measurement and Value columns of the same length.
Augmented(df, src) ==
    /\ df # None
    /\ DOMAIN df = {"Weather_station_ID", "Message", "Measurement", "Value"}
    /\ df.Weather_station_ID = src.Weather_station_ID
    /\ df.Message = src.Message
    /\ Len(df.Measurement) = Len(src.Message)
    /\ Len(df.Value) = Len(src.Message)

LoadThenExtract ==
    /\ Len(trace) \in {1, 2}
    /\ trace[1].step = "weather_station_mapping"
    /\ Len(trace) = 2 =>
          (trace[1].raised = NoError /\ trace[2].step = "process_messages")

\* C4 as stated: process runs the loader, then the extractor, and returns
\* the augmented table.
C4_ProcessReturnsTable ==
    (op = "process" /\ err = NoError)
        => (LoadThenExtract /\ Len(trace) = 2 /\ Augmented(ret, source))

\* C4, amended: process runs the loader, then the extractor, and returns
\* None; the augmented table is left in weather_df.
C4_ProcessLeavesTable ==
    op = "process" =>
        /\ LoadThenExtract
        /\ err = NoError =>
              (Len(trace) = 2 /\ ret = None /\ Augmented(weather_df, source))

C4_Witness ==
    /\ op = "process"
    /\ err = NoError
    /\ ret = None
    /\ Augmented(weather_df, source)
    /\ \E i \in 1..Len(weather_df.Value) : weather_df.Value[i] # None

\* Rows of the group (station, kind) that carry a value.
GroupRows(df, s, k) ==
    {i \in 1..Len(df.Message) :
        /\ df.Weather_station_ID[i] = s
        /\ df.Measurement[i] = k
        /\ df.Value[i] # None}

\* Numerator of the sum of Value over rows I, over the denominator DenOf(I).
RECURSIVE DenOf(_, _)
DenOf(df, I) ==
    IF I = {} THEN 1
    ELSE LET i == CHOOSE a \in I : TRUE IN df.Value[i].den * DenOf(df, I \ {i})

RECURSIVE NumOf(_, _)
NumOf(df, I) ==
    IF I = {} THEN 0
    ELSE LET i == CHOOSE a \in I : TRUE
         IN  df.Value[i].num * DenOf(df, I \ {i}) + NumOf(df, I \ {i}) * df.Value[i].den

Kinds == {Key(k) : k \in 1..Len(patterns)}

\* cell = sum / count, by cross-multiplication.
IsMeanOf(cell, df, I) ==
    /\ cell # NaN
    /\ cell.num * DenOf(df, I) * Cardinality(I) = NumOf(df, I) * cell.den

\* C5: each (station, kind) cell of the means table is the sum over the count
\* of the Value of exactly the rows of that station and kind, rows without a
\* measurement ignored; a station and kind without such a row is NaN (or not
\* in the table), never zero.
C5_CellsAreGroupMeans ==
    (op = "calculate_means" /\ Extracted(weather_df)) =>
        /\ err = NoError
        /\ DOMAIN ret.cell = ret.index \X ret.columns
        /\ \A s \in Stations, k \in Kinds :
              IF GroupRows(weather_df, s, k) # {}
              THEN /\ <<s, k>> \in DOMAIN ret.cell
                   /\ IsMeanOf(ret.cell[<<s, k>>], weather_df, GroupRows(weather_df, s, k))
              ELSE <<s, k>> \in DOMAIN ret.cell => ret.cell[<<s, k>>] = NaN
        /\ \A c \in DOMAIN ret.cell : c[1] \in Stations /\ c[2] \in Kinds

\* Two rows with different values averaged in one cell, a row without a
\* measurement beside them or not.
C5_Witness ==
    /\ op = "calculate_means"
    /\ Extracted(weather_df)
    /\ \E s \in Stations, k \in Kinds :
          /\ Cardinality(GroupRows(weather_df, s, k)) = 2
          /\ \E i, j \in GroupRows(weather_df, s, k) :
                weather_df.Value[i] # weather_df.Value[j]
          /\ ret.cell[<<s, k>>] = Rat(15, 1)

\* C7: process_messages before any load returns the explicit uninitialized
\* result None, raises nothing, and leaves the table unset.
C7_ExtractBeforeLoad ==
    [][(op' = "process_messages" /\ weather_df = None)
          => (err' = NoError /\ ret' = None /\ weather_df' = None)]_vars

C7_Witness ==
    /\ op = "process_messages"
    /\ weather_df = None
    /\ ret = None
    /\ err = NoError

\* C8: process_messages run again on a table it has already run on completes
\* and leaves every column as the first run left it: Measurement, Value,
\* Message, Weather_station_ID and the row count.
C8_ExtractIdempotent ==
    [][(op' = "process_messages" /\ Extracted(weather_df))
          => (err' = NoError /\ weather_df' = weather_df /\ ret' = weather_df)]_vars

C8_Witness ==
    /\ op = "process_messages"
    /\ runs >= 2
    /\ Extracted(weather_df)
    /\ \E i \in 1..Len(weather_df.Value) : weather_df.Value[i] # None
    /\ \E i \in 1..Len(weather_df.Value) : weather_df.Value[i] = None

\* What the extractor raises on a table: the error of the first row that
\* fails, or the unpacking error of a table without rows.
ExtractorError(tbl) ==
    LET bad == {i \in 1..Len(tbl.Message) :
                  extract_measurement(patterns, tbl.Message[i]).raised # NoError}
    IN  IF bad # {} THEN extract_measurement(patterns, tbl.Message[Min(bad)]).raised
        ELSE IF Len(tbl.Message) = 0 THEN "ValueError"
        ELSE NoError

\* C9: in process a failing loader ends the call with the loader's error, the
\* extractor not run and the table as it was (unset on a new processor); a
\* failing extractor ends it with the extractor's error and no Measurement or
\* Value column on the loaded table; no step runs twice.
C9_FailureAborts ==
    [][op' = "process" =>
          /\ trace'[1].step = "weather_station_mapping"
          /\ trace'[1].raised # NoError =>
                /\ Len(trace') = 1
                /\ err' = trace'[1].raised
                /\ err' \in LoadErrors
                /\ weather_df' = weather_df
          /\ trace'[1].raised = NoError =>
                /\ Len(trace') = 2
                /\ trace'[2].step = "process_messages"
                /\ err' = trace'[2].raised
                /\ err' = ExtractorError(source)
                /\ err' # NoError => weather_df' = source]_vars

\* A load failure on a new processor, or an extraction failure on a row.
C9_Witness ==
    /\ op = "process"
    /\ Len(trace) = 2
    /\ err = "ValueError"
    /\ Len(source.Message) > 0
    /\ weather_df = source

\* What a processor constructed with logging_level lets through.
Allows(logging_level, severity) ==
    IF upper(logging_level) = "NONE" THEN FALSE
    ELSE IF upper(logging_level) = "DEBUG" THEN LevelNo(severity) >= LevelNo("DEBUG")
    ELSE LevelNo(severity) >= LevelNo("INFO")

\* C10: whatever was constructed before or after, a logger call of a processor
\* is written exactly when the level that processor was constructed with lets
\* it through, and the logger never has more than one handler.
C10_OwnVerbosity ==
    /\ logger.handlers <= 1
    /\ emitted # None =>
          ((emitted.written > 0) <=> Allows(procs[emitted.proc], emitted.severity))

====
